---- MODULE Spec2Model ----
(***************************************************************************)
(* State-machine model of mclient.rs (matrix-commander-rs): the functions  *)
(* restore_login, login, create_client, verify, logout, logout_server,     *)
(* sync_once, devices, message and file, run against a homeserver, a       *)
(* credentials file and a sled store directory.                            *)
(*                                                                         *)
(* Every operation is one action: the whole body of the function, with the *)
(* outcomes of its collaborators (homeserver, file system, sled store)     *)
(* drawn from small sets.  `op` records the invocation and its inputs,     *)
(* `result` the value it returned, `calls` the collaborator calls it made, *)
(* in order, and `log` the tracing records it emitted, in order.           *)
(***************************************************************************)
EXTENDS Naturals, Sequences, FiniteSets, TLC

VARIABLES
    credfile,        \* the file at gs.credentials_file_path
    sled,            \* TRUE iff the directory gs.sledstore_dir_path exists
    gs_credentials,  \* gs.credentials : Option<Credentials>
    gs_sync,         \* gs.ap.sync : Sync
    gs_timeout,      \* get_timeout(gs)
    client,          \* the caller's Result<Client, Error>
    server,          \* access tokens the homeserver accepts
    issued,          \* number of sessions the homeserver has issued
    op,              \* the last invocation: its name and inputs
    result,          \* what the last invocation returned
    calls,           \* collaborator calls of the last invocation, in order
    log,             \* tracing records of the last invocation, in order
    sent,            \* content handed to send / send_attachment by the last invocation
    handshake        \* the emoji verification in progress: state, signal, time waited

vars == <<credfile, sled, gs_credentials, gs_sync, gs_timeout, client, server,
          issued, op, result, calls, log, sent, handshake>>

----------------------------------------------------------------------------
(* Bounds *)

\* sessions the homeserver issues in one behaviour
MaxLogins == 1

\* longest message text
MaxMsgLen == 2

----------------------------------------------------------------------------
(* Values *)

Range(s) == {s[i] : i \in DOMAIN s}

SyncModes == {"Off", "Full"}

Timeouts == {10, 30}

\* outcome of one round trip to the homeserver
Net == {"ok", "timeout", "transport"}

Homeserver == 1
RoomDefault == 7

\* Credentials: homeserver, user_id, access_token, device_id, room_default
NewCredentials(hs, user, token, device, room) ==
    [homeserver |-> hs, user_id |-> user, access_token |-> token,
     device_id |-> device, room_default |-> room]

NoFile == [present |-> FALSE, bytes |-> <<>>]

\* Credentials::save writes the whole record, replacing the file
CredentialsSave(c) ==
    [present |-> TRUE,
     bytes |-> <<c.homeserver, c.user_id, c.access_token, c.device_id, c.room_default>>]

\* Credentials::load parses the record back; a file that does not parse is an error
CredentialsLoad(f) ==
    IF ~f.present THEN [ok |-> FALSE, err |-> "NotLoggedIn", creds |-> NewCredentials(0, 0, 0, 0, 0)]
    ELSE IF Len(f.bytes) # 5 THEN [ok |-> FALSE, err |-> "CredentialsParse", creds |-> NewCredentials(0, 0, 0, 0, 0)]
    ELSE [ok |-> TRUE, err |-> "",
          creds |-> NewCredentials(f.bytes[1], f.bytes[2], f.bytes[3], f.bytes[4], f.bytes[5])]

\* credentials_exist(gs)
credentials_exist == credfile.present

NoCredentials == [some |-> FALSE, creds |-> NewCredentials(0, 0, 0, 0, 0)]
SomeCredentials(c) == [some |-> TRUE, creds |-> c]

\* Result<Client, Error> held by the caller; token 0 is a client without a session
NoClient == [state |-> "None", token |-> 0, err |-> ""]
OkClient(t) == [state |-> "Ok", token |-> t, err |-> ""]
ErrClient(e) == [state |-> "Err", token |-> 0, err |-> e]

\* `?` on a matrix_sdk::Error, a matrix_sdk::HttpError, a std::io::Error:
\* the underlying error is passed through as its own kind
FromSdkError == "Matrix"
FromHttpError == "Http"
FromIoError == "IO"

Call(fn, arg) == [fn |-> fn, arg |-> arg]
Fns(cs) == {cs[i].fn : i \in DOMAIN cs}

\* calls that reach the homeserver
NetworkFns == {"login_username", "sync_once", "logout", "devices",
               "send", "send_attachment"}

\* Option<T>
None == <<>>
Some(x) == <<x>>

NoContent == [kind |-> "none", msgtype |-> "", body |-> <<>>, markdown |-> FALSE,
              label |-> "", mime |-> ""]

\* the invocation record: name and every input, unused inputs at their default
Op0 == [name |-> "init", storeOk |-> TRUE, restoreOk |-> TRUE, net |-> "ok",
        net2 |-> "ok", password |-> TRUE, saveOk |-> TRUE, rmFileOk |-> TRUE,
        rmDirOk |-> TRUE, stype |-> "Off", timeout |-> 0, preFile |-> NoFile,
        verification |-> "", msg |-> <<>>, room |-> <<>>, code |-> FALSE,
        markdown |-> FALSE, notice |-> FALSE, emote |-> FALSE,
        path |-> [kind |-> "", name |-> <<>>, ext |-> ""], label |-> <<>>,
        mime |-> <<>>]

\* no verification in progress
Handshake0 == [state |-> "Idle", signal |-> "", event |-> "", waited |-> 0]

\* the homeserver, accepting the tokens `srv`, answers a request made with `tok`
ServerAccepts(srv, tok, net) == net = "ok" /\ tok \in srv

----------------------------------------------------------------------------
(* sync_once, lines 209-225 *)

\* sync_once retrying a failed round once
sync_once_retry(srv, tok, timeout, stype, net) ==
    IF stype = "Off"
    THEN [res |-> "Ok", calls |-> <<>>, log |-> <<"syncing is turned off">>]
    ELSE IF ServerAccepts(srv, tok, net)
         THEN [res |-> "Ok", calls |-> <<Call("sync_once", timeout)>>,
               log |-> <<"syncing once", "sync completed">>]
         ELSE [res |-> FromSdkError,
               calls |-> <<Call("sync_once", timeout), Call("sync_once", timeout)>>,
               log |-> <<"syncing once">>]

\* sync_once logging a failed round and returning Ok
sync_once_swallow(srv, tok, timeout, stype, net) ==
    IF stype = "Off"
    THEN [res |-> "Ok", calls |-> <<>>, log |-> <<"syncing is turned off">>]
    ELSE [res |-> "Ok", calls |-> <<Call("sync_once", timeout)>>,
          log |-> <<"syncing once", "sync completed">>]

sync_once(srv, tok, timeout, stype, net) ==
    IF stype = "Off"
    THEN [res |-> "Ok", calls |-> <<>>, log |-> <<"syncing is turned off">>]
    ELSE IF ServerAccepts(srv, tok, net)
         THEN [res |-> "Ok", calls |-> <<Call("sync_once", timeout)>>,
               log |-> <<"syncing once", "sync completed">>]
         ELSE [res |-> FromSdkError, calls |-> <<Call("sync_once", timeout)>>,
               log |-> <<"syncing once">>]

----------------------------------------------------------------------------
(* create_client, lines 123-143: opens (creating it) the sled store, or    *)
(* panics on `expect`                                                      *)

create_client(storeOk) ==
    IF storeOk
    THEN [res |-> "Ok", sled |-> TRUE, calls |-> <<Call("sled_store", 0), Call("build", 0)>>]
    ELSE [res |-> "Panic", sled |-> sled, calls |-> <<Call("sled_store", 0)>>]

----------------------------------------------------------------------------
(* restore_login, lines 53-71 *)

Outcome(res, cl, sl, gsc, file, srv, iss, cs, lg) ==
    [result |-> res, client |-> cl, sled |-> sl, gs_credentials |-> gsc,
     credfile |-> file, server |-> srv, issued |-> iss, calls |-> cs, log |-> lg]

restore_login_out(storeOk, restoreOk, net) ==
    IF credfile.present     \* gs.credentials_file_path.is_file()
    THEN
      LET ld == CredentialsLoad(credfile)
          c0 == <<Call("Credentials::load", 0)>>
      IN
      IF ~ld.ok
      THEN Outcome(ld.err, ErrClient(ld.err), sled, gs_credentials, credfile,
                   server, issued, c0, <<>>)
      ELSE
        LET gsc == SomeCredentials(ld.creds)
            cc == create_client(storeOk)
            c1 == c0 \o cc.calls
        IN
        IF cc.res = "Panic"
        THEN Outcome("Panic", NoClient, cc.sled, NoCredentials, credfile,
                     server, issued, c1, <<>>)
        ELSE
          LET c2 == c1 \o <<Call("restore_login", ld.creds.access_token)>>
              l2 == <<"restoring device">>
          IN
          IF ~restoreOk
          THEN Outcome(FromSdkError, ErrClient(FromSdkError), cc.sled, gsc,
                       credfile, server, issued, c2, l2)
          ELSE
            LET sy == sync_once(server, ld.creds.access_token, gs_timeout, gs_sync, net) IN
            IF sy.res # "Ok"
            THEN Outcome(sy.res, ErrClient(sy.res), cc.sled, gsc, credfile,
                         server, issued, c2 \o sy.calls, l2 \o sy.log)
            ELSE Outcome("Ok", OkClient(ld.creds.access_token), cc.sled, gsc,
                         credfile, server, issued, c2 \o sy.calls, l2 \o sy.log)
    ELSE Outcome("NotLoggedIn", ErrClient("NotLoggedIn"), sled, gs_credentials,
                 credfile, server, issued, <<>>, <<>>)

Apply(out, o) ==
    /\ result' = out.result
    /\ client' = out.client
    /\ sled' = out.sled
    /\ gs_credentials' = out.gs_credentials
    /\ credfile' = out.credfile
    /\ server' = out.server
    /\ issued' = out.issued
    /\ calls' = out.calls
    /\ log' = out.log
    /\ op' = [o EXCEPT !.preFile = credfile]

\* restore_login removing the credentials file when the restore fails
restore_login_forget(storeOk, restoreOk, net) ==
    /\ LET out == restore_login_out(storeOk, restoreOk, net) IN
       Apply([out EXCEPT !.credfile = IF out.result = "Ok" THEN @ ELSE NoFile],
             [Op0 EXCEPT !.name = "restore_login", !.storeOk = storeOk,
                         !.restoreOk = restoreOk, !.net = net])
    /\ sent' = NoContent
    /\ UNCHANGED <<gs_sync, gs_timeout, handshake>>

\* restore_login reporting every failure as NotLoggedIn
restore_login_conflate(storeOk, restoreOk, net) ==
    /\ LET out == restore_login_out(storeOk, restoreOk, net)
           res == IF out.result \in {"Ok", "Panic"} THEN out.result ELSE "NotLoggedIn"
       IN
       Apply([out EXCEPT !.result = res,
                         !.client = IF res = "NotLoggedIn" THEN ErrClient(res) ELSE @],
             [Op0 EXCEPT !.name = "restore_login", !.storeOk = storeOk,
                         !.restoreOk = restoreOk, !.net = net])
    /\ sent' = NoContent
    /\ UNCHANGED <<gs_sync, gs_timeout, handshake>>

restore_login(storeOk, restoreOk, net) ==
    /\ Apply(restore_login_out(storeOk, restoreOk, net),
             [Op0 EXCEPT !.name = "restore_login", !.storeOk = storeOk,
                         !.restoreOk = restoreOk, !.net = net])
    /\ sent' = NoContent
    /\ UNCHANGED <<gs_sync, gs_timeout, handshake>>

----------------------------------------------------------------------------
(* login, lines 74-119 *)

login_out(storeOk, password, net, saveOk, net2) ==
    LET cc == create_client(storeOk) IN
    IF cc.res = "Panic"
    THEN Outcome("Panic", NoClient, cc.sled, NoCredentials, credfile, server,
                 issued, cc.calls, <<>>)
    ELSE
      LET c1 == cc.calls \o <<Call("login_username", 0)>> IN
      IF ~(password /\ net = "ok")      \* response is Err(e)
      THEN Outcome("LoginFailed", ErrClient("LoginFailed"), cc.sled,
                   gs_credentials, credfile, server, issued, c1, <<"Error">>)
      ELSE
        LET tok == issued + 1          \* the session the homeserver created
            srv == server \cup {tok}
            creds == NewCredentials(Homeserver, 1, tok, tok, RoomDefault)
            c2 == c1 \o <<Call("Credentials::save", tok)>>
        IN
        IF ~saveOk
        THEN Outcome(FromIoError, ErrClient(FromIoError), cc.sled,
                     gs_credentials, credfile, srv, tok, c2, <<>>)
        ELSE
          LET file == CredentialsSave(creds)
              l2 == <<"new credentials file created">>
              sy == sync_once(srv, tok, gs_timeout, gs_sync, net2)
          IN
          IF sy.res # "Ok"
          THEN Outcome(sy.res, ErrClient(sy.res), cc.sled, gs_credentials,
                       file, srv, tok, c2 \o sy.calls, l2 \o sy.log)
          ELSE Outcome("Ok", OkClient(tok), cc.sled, gs_credentials, file,
                       srv, tok, c2 \o sy.calls, l2 \o sy.log)

\* login returning its client without saving the credentials
login_nosave(storeOk, password, net, saveOk, net2) ==
    /\ issued <= MaxLogins
    /\ LET out == login_out(storeOk, password, net, saveOk, net2) IN
       Apply([out EXCEPT !.credfile = credfile],
             [Op0 EXCEPT !.name = "login", !.storeOk = storeOk,
                         !.password = password, !.net = net,
                         !.saveOk = saveOk, !.net2 = net2])
    /\ sent' = NoContent
    /\ UNCHANGED <<gs_sync, gs_timeout, handshake>>

\* login saving credentials before it looks at the homeserver's response
login_saveearly(storeOk, password, net, saveOk, net2) ==
    /\ issued <= MaxLogins
    /\ LET out == login_out(storeOk, password, net, saveOk, net2) IN
       Apply([out EXCEPT !.credfile =
                 IF out.result = "LoginFailed"
                 THEN CredentialsSave(NewCredentials(Homeserver, 1, 0, 0, RoomDefault))
                 ELSE @],
             [Op0 EXCEPT !.name = "login", !.storeOk = storeOk,
                         !.password = password, !.net = net,
                         !.saveOk = saveOk, !.net2 = net2])
    /\ sent' = NoContent
    /\ UNCHANGED <<gs_sync, gs_timeout, handshake>>

login(storeOk, password, net, saveOk, net2) ==
    /\ issued <= MaxLogins
    /\ Apply(login_out(storeOk, password, net, saveOk, net2),
             [Op0 EXCEPT !.name = "login", !.storeOk = storeOk,
                         !.password = password, !.net = net,
                         !.saveOk = saveOk, !.net2 = net2])
    /\ sent' = NoContent
    /\ UNCHANGED <<gs_sync, gs_timeout, handshake>>

----------------------------------------------------------------------------
(* logout_server, lines 197-206: the homeserver's answer is logged, never  *)
(* returned                                                                *)

\* logout_server returning the homeserver's error
logout_server_propagate(srv, tok, net) ==
    IF ServerAccepts(srv, tok, net)
    THEN [res |-> "Ok", server |-> srv \ {tok}, calls |-> <<Call("logout", tok)>>,
          log |-> <<"Logout sent to server">>]
    ELSE [res |-> FromSdkError, server |-> srv, calls |-> <<Call("logout", tok)>>,
          log |-> <<"Error: Server logout failed">>]

logout_server(srv, tok, net) ==
    IF ServerAccepts(srv, tok, net)
    THEN [res |-> "Ok", server |-> srv \ {tok}, calls |-> <<Call("logout", tok)>>,
          log |-> <<"Logout sent to server">>]
    ELSE [res |-> "Ok", server |-> srv, calls |-> <<Call("logout", tok)>>,
          log |-> <<"Error: Server logout failed">>]

(* logout, lines 159-194 *)

\* lines 165-181: the credentials file
logout_credentials(file, rmFileOk) ==
    IF file.present     \* credentials_exist(&gs)
    THEN IF rmFileOk
         THEN [credfile |-> NoFile, calls |-> <<Call("remove_file", 0)>>,
               log |-> <<"Credentials file successfully remove">>]
         ELSE [credfile |-> file, calls |-> <<Call("remove_file", 0)>>,
               log |-> <<"Error: credentials file not removed">>]
    ELSE [credfile |-> file, calls |-> <<>>,
          log |-> <<"Credentials file does not exist">>]

\* lines 183-192: the sled store directory; removing a missing directory fails
\* logout_sled ignoring the result of remove_dir_all
logout_sled_ignore(dir, rmDirOk) ==
    IF dir /\ rmDirOk
    THEN [sled |-> FALSE, calls |-> <<Call("remove_dir_all", 0)>>,
          log |-> <<"Sled directory successfully remove">>]
    ELSE [sled |-> dir, calls |-> <<Call("remove_dir_all", 0)>>,
          log |-> <<"Sled directory successfully remove">>]

logout_sled(dir, rmDirOk) ==
    IF dir /\ rmDirOk
    THEN [sled |-> FALSE, calls |-> <<Call("remove_dir_all", 0)>>,
          log |-> <<"Sled directory successfully remove">>]
    ELSE [sled |-> dir, calls |-> <<Call("remove_dir_all", 0)>>,
          log |-> <<"Error: Sled directory not removed">>]

\* logout returning at a failed removal of the credentials file
logout_out_abort(net, rmFileOk, rmDirOk) ==
    LET ls == IF client.state = "Ok"
              THEN logout_server(server, client.token, net)
              ELSE [res |-> "Ok", server |-> server, calls |-> <<>>, log |-> <<>>]
        lc == logout_credentials(credfile, rmFileOk)
        ld == logout_sled(sled, rmDirOk)
    IN
    IF lc.credfile.present
    THEN Outcome(FromIoError, client, sled, gs_credentials, lc.credfile,
                 ls.server, issued, ls.calls \o lc.calls, ls.log \o lc.log)
    ELSE Outcome("Ok", client, ld.sled, gs_credentials, lc.credfile, ls.server,
                 issued, ls.calls \o lc.calls \o ld.calls,
                 ls.log \o lc.log \o ld.log)

logout_out(net, rmFileOk, rmDirOk) ==
    LET ls == IF client.state = "Ok"
              THEN logout_server(server, client.token, net)
              ELSE [res |-> "Ok", server |-> server, calls |-> <<>>, log |-> <<>>]
    IN
    IF ls.res # "Ok"      \* logout_server(&client).await?
    THEN Outcome(ls.res, client, sled, gs_credentials, credfile, ls.server,
                 issued, ls.calls, ls.log)
    ELSE
      LET lc == logout_credentials(credfile, rmFileOk)
          ld == logout_sled(sled, rmDirOk)
      IN Outcome("Ok", client, ld.sled, gs_credentials, lc.credfile, ls.server,
                 issued, ls.calls \o lc.calls \o ld.calls,
                 ls.log \o lc.log \o ld.log)

logout(net, rmFileOk, rmDirOk) ==
    /\ client.state # "None"
    /\ Apply(logout_out(net, rmFileOk, rmDirOk),
             [Op0 EXCEPT !.name = "logout", !.net = net, !.rmFileOk = rmFileOk,
                         !.rmDirOk = rmDirOk])
    /\ sent' = NoContent
    /\ UNCHANGED <<gs_sync, gs_timeout, handshake>>

----------------------------------------------------------------------------
(* sync_once called by the caller on its client *)

sync_once_out(timeout, stype, net) ==
    LET sy == sync_once(server, client.token, timeout, stype, net)
    IN Outcome(sy.res, client, sled, gs_credentials, credfile, server, issued,
               sy.calls, sy.log)

SyncOnce(timeout, stype, net) ==
    /\ client.state = "Ok"
    /\ Apply(sync_once_out(timeout, stype, net),
             [Op0 EXCEPT !.name = "sync_once", !.timeout = timeout,
                         !.stype = stype, !.net = net])
    /\ sent' = NoContent
    /\ UNCHANGED <<gs_sync, gs_timeout, handshake>>

----------------------------------------------------------------------------
(* devices, lines 244-260 *)

devices_out(net) ==
    IF client.state = "Ok"
    THEN IF ServerAccepts(server, client.token, net)
         THEN Outcome("Ok", client, sled, gs_credentials, credfile, server,
                      issued, <<Call("devices", 0)>>, <<>>)
         ELSE Outcome(FromHttpError, client, sled, gs_credentials, credfile,
                      server, issued, <<Call("devices", 0)>>, <<>>)
    ELSE Outcome("NotLoggedIn", client, sled, gs_credentials, credfile, server,
                 issued, <<>>, <<>>)

devices(net) ==
    /\ client.state # "None"
    /\ Apply(devices_out(net), [Op0 EXCEPT !.name = "devices", !.net = net])
    /\ sent' = NoContent
    /\ UNCHANGED <<gs_sync, gs_timeout, handshake>>

----------------------------------------------------------------------------
(* verify, lines 146-156.  emoji_verify::sync runs the handshake; its end  *)
(* state decides what it returns.                                          *)

VerificationEnds == {"Done", "Rejected", "Timeout", "Failed"}

emoji_verify_sync(end) ==
    CASE end = "Done" -> "Ok"
      [] end = "Rejected" -> "VerificationRejected"
      [] end = "Timeout" -> "VerificationTimeout"
      [] OTHER -> "VerificationFailed"

\* verify returning Ok whatever emoji_verify::sync returned
verify_out_swallow(end) ==
    IF client.state = "Ok"
    THEN Outcome("Ok", client, sled, gs_credentials, credfile,
                 server, issued, <<Call("emoji_verify::sync", 0)>>, <<>>)
    ELSE Outcome("NotLoggedIn", client, sled, gs_credentials, credfile, server,
                 issued, <<>>, <<>>)

verify_out(end) ==
    IF client.state = "Ok"
    THEN Outcome(emoji_verify_sync(end), client, sled, gs_credentials, credfile,
                 server, issued, <<Call("emoji_verify::sync", 0)>>, <<>>)
    ELSE Outcome("NotLoggedIn", client, sled, gs_credentials, credfile, server,
                 issued, <<>>, <<>>)

\* verify going back to wait when the wait has timed out
verify_waitagain(end) ==
    /\ client.state # "None"
    /\ end # "Timeout"
    /\ Apply(verify_out(end), [Op0 EXCEPT !.name = "verify", !.verification = end])
    /\ sent' = NoContent
    /\ UNCHANGED <<gs_sync, gs_timeout, handshake>>

verify(end) ==
    /\ client.state # "None"
    /\ Apply(verify_out(end), [Op0 EXCEPT !.name = "verify", !.verification = end])
    /\ sent' = NoContent
    /\ UNCHANGED <<gs_sync, gs_timeout, handshake>>

----------------------------------------------------------------------------
(* The handshake emoji_verify::sync runs while verify awaits it: a state   *)
(* machine driven by the verification events of the homeserver's stream,   *)
(* the operator's answers and the wait bound of each step.                 *)

HandshakeStates == {"Idle", "Requested", "KeysExchanged", "EmojiPresented",
                    "Confirmed", "Done", "Aborted"}
HandshakeTerminal == {"Done", "Aborted"}

\* inbound events and operator answers
HandshakeEvents == {"request_accepted", "request_declined", "keys_ok", "keys_bad",
                    "emoji", "operator_confirm", "operator_reject",
                    "remote_confirm", "cancel"}

HandshakeTo(st, e) == [state |-> st, signal |-> "", event |-> e, waited |-> 0]
HandshakeAbort(sig, e) == [state |-> "Aborted", signal |-> sig, event |-> e, waited |-> 0]

\* one transition: a pure function of the current state and the event; an
\* event the state does not expect changes nothing but is noted
HandshakeStep(h, e) ==
    CASE h.state \in HandshakeTerminal -> h
      [] e = "cancel" -> HandshakeAbort("cancelled", e)
      [] h.state = "Idle" /\ e = "request_accepted" -> HandshakeTo("Requested", e)
      [] h.state = "Requested" /\ e = "keys_ok" -> HandshakeTo("KeysExchanged", e)
      [] h.state = "Requested" /\ e = "keys_bad" -> HandshakeAbort("failed", e)
      [] h.state = "KeysExchanged" /\ e = "emoji" -> HandshakeTo("EmojiPresented", e)
      [] h.state = "EmojiPresented" /\ e = "operator_confirm" -> HandshakeTo("Confirmed", e)
      [] h.state = "EmojiPresented" /\ e = "operator_reject" -> HandshakeAbort("rejected", e)
      [] h.state = "Confirmed" /\ e = "remote_confirm" -> HandshakeTo("Done", e)
      [] OTHER -> [h EXCEPT !.event = e]

\* what the handshake, once over, hands to emoji_verify::sync's caller
HandshakeEnd(h) ==
    CASE h.state = "Done" -> "Done"
      [] h.state = "Aborted" /\ h.signal = "rejected" -> "Rejected"
      [] h.state = "Aborted" /\ h.signal = "timeout" -> "Timeout"
      [] OTHER -> "Failed"

\* verify is awaiting emoji_verify::sync on a client
Verifying == op.name = "init" /\ client.state = "Ok"

OnlyHandshake ==
    UNCHANGED <<credfile, sled, gs_credentials, gs_sync, gs_timeout, client,
                server, issued, op, result, calls, log, sent>>

\* an event arrives and its handler runs
HandshakeEvent(e) ==
    /\ Verifying
    /\ handshake.state \notin HandshakeTerminal
    /\ handshake' = HandshakeStep(handshake, e)
    /\ OnlyHandshake

\* a second of the current wait passes without an event
HandshakeTick ==
    /\ Verifying
    /\ handshake.state \notin HandshakeTerminal
    /\ handshake.waited < gs_timeout
    /\ handshake' = [handshake EXCEPT !.waited = @ + 1]
    /\ OnlyHandshake

\* the wait has lasted the configured timeout
HandshakeTimeout ==
    /\ Verifying
    /\ handshake.state \notin HandshakeTerminal
    /\ handshake.waited = gs_timeout
    /\ handshake' = HandshakeAbort("timeout", "timeout")
    /\ OnlyHandshake

\* emoji_verify::sync returns to verify, or verify finds its client an Err
VerifyReturn ==
    /\ op.name = "init"
    /\ client.state = "Ok" => handshake.state \in HandshakeTerminal
    /\ verify(HandshakeEnd(handshake))

InitVerify ==
    /\ credfile = CredentialsSave(NewCredentials(Homeserver, 1, 1, 1, RoomDefault))
    /\ sled = TRUE
    /\ gs_credentials = NoCredentials
    /\ gs_sync = "Off"
    /\ gs_timeout \in Timeouts
    /\ client \in {OkClient(1), ErrClient("NotLoggedIn")}
    /\ server \in {{}, {1}}
    /\ issued = 1
    /\ op = Op0
    /\ result = "Ok"
    /\ calls = <<>>
    /\ log = <<>>
    /\ sent = NoContent
    /\ handshake = Handshake0

NextVerify ==
    \/ \E e \in HandshakeEvents : HandshakeEvent(e)
    \/ HandshakeTick
    \/ HandshakeTimeout
    \/ VerifyReturn

SpecVerify == InitVerify /\ [][NextVerify]_vars

\* time passes whatever events arrive, a wait that has lasted the timeout is
\* ended, and emoji_verify::sync returns once the handshake is over
SpecVerifyLive ==
    /\ SpecVerify
    /\ WF_vars(HandshakeTick)
    /\ WF_vars(HandshakeTimeout)
    /\ WF_vars(VerifyReturn)

----------------------------------------------------------------------------
(* Room identifiers and texts are strings: sequences of characters *)

\* the characters: a letter, the newline and the backtick
Backtick == "BACKTICK"
Chars == {"a", "\n"}
Msgs == UNION {[1..k -> Chars] : k \in 0..MaxMsgLen}

EndsWith(str, ch) == Len(str) > 0 /\ str[Len(str)] = ch

RoomJoined == <<"!", "r", ":", "s">>
RoomNotJoined == <<"!", "q", ":", "s">>
RoomNoSigil == <<"r", ":", "s">>
RoomNoServer == <<"!", "r">>
RoomInputs == {RoomJoined, RoomNotJoined, RoomNoSigil, RoomNoServer}

\* RoomId::parse: the `!` sigil, then a localpart, `:` and a server name
RoomIdParse(room) ==
    /\ Len(room) > 0
    /\ room[1] = "!"
    /\ \E i \in 2..Len(room) : room[i] = ":" /\ i < Len(room)

\* client.get_joined_room(&proom)
JoinedRooms == {RoomJoined}
\* a lookup that hands out a room handle for any well-formed identifier
get_joined_room_any(room) == TRUE
get_joined_room(room) == room \in JoinedRooms

----------------------------------------------------------------------------
(* message, lines 263-319 *)

\* lines 276-288
FenceMsg(msg) ==
    LET fmt1 == <<Backtick, Backtick, Backtick>> \o <<"\n">> \o msg
        fmt2 == IF ~EndsWith(fmt1, "\n") THEN fmt1 \o <<"\n">> ELSE fmt1
    IN fmt2 \o <<Backtick, Backtick, Backtick>>

\* the content with the markdown flag alone choosing the rendering
MessageContent_mdflag(msg, code, markdown, notice, emote) ==
    LET nmsg == IF code THEN FenceMsg(msg) ELSE msg
        msgtype == IF notice THEN "Notice" ELSE IF emote THEN "Emote" ELSE "Text"
    IN [kind |-> "message", msgtype |-> msgtype, body |-> nmsg,
        markdown |-> markdown, label |-> "", mime |-> ""]

\* the content with the emote flag tested before the notice flag
MessageContent_emotefirst(msg, code, markdown, notice, emote) ==
    LET nmsg == IF code THEN FenceMsg(msg) ELSE msg
        md == IF code THEN TRUE ELSE markdown
        msgtype == IF emote THEN "Emote" ELSE IF notice THEN "Notice" ELSE "Text"
    IN [kind |-> "message", msgtype |-> msgtype, body |-> nmsg, markdown |-> md,
        label |-> "", mime |-> ""]

\* lines 276-308
MessageContent(msg, code, markdown, notice, emote) ==
    LET nmsg == IF code THEN FenceMsg(msg) ELSE msg
        md == IF code THEN TRUE ELSE markdown
        msgtype == IF notice THEN "Notice" ELSE IF emote THEN "Emote" ELSE "Text"
    IN [kind |-> "message", msgtype |-> msgtype, body |-> nmsg, markdown |-> md,
        label |-> "", mime |-> ""]

DispatchOut(res, cs, content) ==
    [result |-> res, calls |-> cs, sent |-> content]

message_out(msg, room, code, markdown, notice, emote, net) ==
    IF client.state = "Err"
    THEN DispatchOut("InvalidClientConnection", <<>>, NoContent)
    ELSE
      LET content == MessageContent(msg, code, markdown, notice, emote)
          c1 == <<Call("RoomId::parse", 0)>>
      IN
      IF ~RoomIdParse(room)                  \* .unwrap()
      THEN DispatchOut("Panic", c1, NoContent)
      ELSE
        LET c2 == c1 \o <<Call("get_joined_room", 0)>> IN
        IF ~get_joined_room(room)
        THEN DispatchOut("InvalidRoom", c2, NoContent)
        ELSE IF ServerAccepts(server, client.token, net)
             THEN DispatchOut("Ok", c2 \o <<Call("send", 0)>>, content)
             ELSE DispatchOut(FromSdkError, c2 \o <<Call("send", 0)>>, NoContent)

ApplyDispatch(out, o) ==
    /\ result' = out.result
    /\ calls' = out.calls
    /\ sent' = out.sent
    /\ log' = <<>>
    /\ client' = IF out.result = "Panic" THEN NoClient ELSE client
    /\ gs_credentials' = IF out.result = "Panic" THEN NoCredentials ELSE gs_credentials
    /\ op' = [o EXCEPT !.preFile = credfile]
    /\ UNCHANGED <<credfile, sled, server, issued, gs_sync, gs_timeout, handshake>>

message(msg, room, code, markdown, notice, emote, net) ==
    /\ client.state # "None"
    /\ ApplyDispatch(message_out(msg, room, code, markdown, notice, emote, net),
                     [Op0 EXCEPT !.name = "message", !.msg = msg, !.room = room,
                                 !.code = code, !.markdown = markdown,
                                 !.notice = notice, !.emote = emote, !.net = net])

----------------------------------------------------------------------------
(* file, lines 322-354 *)

\* a path: what is there, its final component (file_name()) and extension
PathOf(kind, name, ext) == [kind |-> kind, name |-> name, ext |-> ext]
PathInputs ==
    {PathOf("file", Some("pic.png"), "png"),
     PathOf("file", Some("data.zzz"), "zzz"),
     PathOf("file", Some("README"), ""),
     PathOf("missing", Some("gone.txt"), "txt"),
     PathOf("dir", Some("docs"), ""),
     PathOf("dir", None, "")}          \* "/" or "..": no final component

LabelInputs == {None, Some("label")}
MimeInputs == {None, Some("text/plain")}

\* mime_guess::from_path(&filename).first()
MimeGuessFirst(path) ==
    CASE path.ext = "png" -> Some("image/png")
      [] path.ext = "txt" -> Some("text/plain")
      [] OTHER -> None

\* unwrap_or with the fallback taking the place of the value
UnwrapOr_fallback(opt, default) == default
UnwrapOr(opt, default) == IF opt = None THEN default ELSE opt[1]
OrElse(opt, other) == IF opt = None THEN other ELSE opt

file_out(path, room, label, mime, net) ==
    IF client.state = "Err"
    THEN DispatchOut("InvalidClientConnection", <<>>, NoContent)
    ELSE
      LET c1 == <<Call("fs::read", 0)>> IN
      IF path.kind # "file"                    \* fs::read(&filename)?
      THEN DispatchOut(FromIoError, c1, NoContent)
      ELSE
        LET c2 == c1 \o <<Call("RoomId::parse", 0)>> IN
        IF ~RoomIdParse(room)                  \* .unwrap()
        THEN DispatchOut("Panic", c2, NoContent)
        ELSE
          LET c3 == c2 \o <<Call("get_joined_room", 0)>> IN
          IF ~get_joined_room(room)
          THEN DispatchOut("InvalidRoom", c3, NoContent)
          ELSE
            LET name == OrElse(label, path.name) IN
            IF name = None
            THEN DispatchOut("InvalidFile", c3, NoContent)
            ELSE
              LET content == [kind |-> "attachment", msgtype |-> "",
                              body |-> <<>>, markdown |-> FALSE,
                              label |-> name[1],
                              mime |-> UnwrapOr(mime,
                                         UnwrapOr(MimeGuessFirst(path),
                                                  "application/octet-stream"))]
                  c4 == c3 \o <<Call("send_attachment", 0)>>
              IN
              IF ServerAccepts(server, client.token, net)
              THEN DispatchOut("Ok", c4, content)
              ELSE DispatchOut(FromSdkError, c4, NoContent)

\* file reading the attachment before it looks at the client
file_readfirst(path, room, label, mime, net) ==
    /\ client.state # "None"
    /\ ApplyDispatch(IF path.kind # "file"
                     THEN DispatchOut(FromIoError, <<Call("fs::read", 0)>>, NoContent)
                     ELSE file_out(path, room, label, mime, net),
                     [Op0 EXCEPT !.name = "file", !.path = path, !.room = room,
                                 !.label = label, !.mime = mime, !.net = net])

file(path, room, label, mime, net) ==
    /\ client.state # "None"
    /\ ApplyDispatch(file_out(path, room, label, mime, net),
                     [Op0 EXCEPT !.name = "file", !.path = path, !.room = room,
                                 !.label = label, !.mime = mime, !.net = net])

----------------------------------------------------------------------------

Init ==
    /\ credfile \in {NoFile, CredentialsSave(NewCredentials(Homeserver, 1, 1, 1, RoomDefault)),
                     [present |-> TRUE, bytes |-> <<>>]}
    /\ sled \in BOOLEAN
    /\ gs_credentials = NoCredentials
    /\ gs_sync \in SyncModes
    /\ gs_timeout \in Timeouts
    /\ client = NoClient
    /\ server \in {{}, {1}}
    /\ issued = 1
    /\ op = Op0
    /\ result = "Ok"
    /\ calls = <<>>
    /\ log = <<>>
    /\ sent = NoContent
    /\ handshake = Handshake0

\* A function returns at its first failing step, so the outcomes of the later
\* steps are not consumed: the inputs drawn have at most one failing collaborator.
RestoreInputs ==
    {i \in [storeOk : BOOLEAN, restoreOk : BOOLEAN, net : Net] :
        Cardinality({k \in {"storeOk", "restoreOk"} : ~i[k]}
                    \cup {k \in {"net"} : i[k] # "ok"}) <= 1}

LoginInputs ==
    {i \in [storeOk : BOOLEAN, password : BOOLEAN, net : Net, saveOk : BOOLEAN,
            net2 : Net] :
        Cardinality({k \in {"storeOk", "password", "saveOk"} : ~i[k]}
                    \cup {k \in {"net", "net2"} : i[k] # "ok"}) <= 1}

Next ==
    \/ \E i \in RestoreInputs : restore_login(i.storeOk, i.restoreOk, i.net)
    \/ \E i \in LoginInputs :
            login(i.storeOk, i.password, i.net, i.saveOk, i.net2)
    \/ \E net \in Net, rmFileOk \in BOOLEAN, rmDirOk \in BOOLEAN :
            logout(net, rmFileOk, rmDirOk)
    \/ \E timeout \in Timeouts, stype \in SyncModes, net \in Net :
            SyncOnce(timeout, stype, net)
    \/ \E net \in Net : devices(net)
    \/ \E end \in VerificationEnds : verify(end)
    \/ \E room \in {RoomJoined, RoomNoSigil}, net \in {"ok", "transport"} :
            message(<<"a">>, room, FALSE, FALSE, FALSE, FALSE, net)
    \/ \E path \in {PathOf("file", Some("pic.png"), "png"),
                     PathOf("missing", Some("gone.txt"), "txt")},
          net \in {"ok", "transport"} :
            file(path, RoomJoined, None, None, net)

Spec == Init /\ [][Next]_vars

----------------------------------------------------------------------------
(* The dispatch functions on their own: the caller holds the client a      *)
(* restore_login or login returned, and every argument is drawn.           *)

InitDispatch ==
    /\ credfile = CredentialsSave(NewCredentials(Homeserver, 1, 1, 1, RoomDefault))
    /\ sled = TRUE
    /\ gs_credentials = NoCredentials
    /\ gs_sync = "Off"
    /\ gs_timeout \in Timeouts
    /\ client \in {OkClient(1), ErrClient("NotLoggedIn"), ErrClient("LoginFailed"),
                   ErrClient(FromSdkError)}
    /\ server \in {{}, {1}}
    /\ issued = 1
    /\ op = Op0
    /\ result = "Ok"
    /\ calls = <<>>
    /\ log = <<>>
    /\ sent = NoContent
    /\ handshake = Handshake0

\* message and file change nothing a later call reads (op, result, calls and
\* sent are rewritten by every call), so one call from each initial state
\* covers every call.
NextDispatch ==
    \/ /\ op.name = "init"
       /\ \E msg \in Msgs, room \in RoomInputs, code \in BOOLEAN,
             markdown \in BOOLEAN, notice \in BOOLEAN, emote \in BOOLEAN,
             net \in Net :
                message(msg, room, code, markdown, notice, emote, net)
    \/ /\ op.name = "init"
       /\ \E path \in PathInputs, room \in RoomInputs, label \in LabelInputs,
             mime \in MimeInputs, net \in Net :
                file(path, room, label, mime, net)

SpecDispatch == InitDispatch /\ [][NextDispatch]_vars

----------------------------------------------------------------------------
(* Properties *)

Last(seq) == seq[Len(seq)]
Count(cs, fn) == Cardinality({i \in DOMAIN cs : cs[i].fn = fn})
SavedBy(tok) == CredentialsSave(NewCredentials(Homeserver, 1, tok, tok, RoomDefault))
Loadable(f) == f.present /\ CredentialsLoad(f).ok
TokenOf(f) == CredentialsLoad(f).creds.access_token

\* C1: whatever the server-side logout did (accepted, failed, or not attempted
\* because the client is an Err), logout goes on to the local cleanup: it
\* attempts remove_file on an existing credentials file and remove_dir_all on
\* the store directory, and a failed server call is reported by its own log
\* record, besides the records of the two cleanup steps.
C1_LogoutAlwaysCleansUp ==
    op.name = "logout" =>
        /\ "remove_dir_all" \in Fns(calls)
        /\ (op.preFile.present => "remove_file" \in Fns(calls))
        /\ (op.rmFileOk => ~credfile.present)
        /\ (op.rmDirOk => ~sled)
        /\ (client.state = "Ok" /\ op.net # "ok" =>
                /\ "Error: Server logout failed" \in Range(log)
                /\ Len(log) = 3)
        /\ (client.state = "Err" => "logout" \notin Fns(calls) /\ Len(log) = 2)

C1_Witness ==
    /\ op.name = "logout"
    /\ client.state = "Ok"
    /\ op.net = "transport"
    /\ op.preFile.present
    /\ ~credfile.present
    /\ ~sled
    /\ "Error: Server logout failed" \in Range(log)

\* C2 as stated: after any call other than logout, a credentials file that
\* existed before the call is still there, unchanged.
C2_FileUnchangedExceptByLogout ==
    (op.name \notin {"init", "logout"} /\ op.preFile.present) =>
        credfile = op.preFile

\* C2, amended: after any call other than logout, a credentials file that
\* existed before the call still exists; it is unchanged unless the call was
\* a login whose password the homeserver accepted and whose save succeeded,
\* which replaces it by the new session's credentials.
C2_FileKeptExceptByLogout ==
    (op.name \notin {"init", "logout"} /\ op.preFile.present) =>
        /\ credfile.present
        /\ \/ credfile = op.preFile
           \/ /\ op.name = "login"
              /\ op.storeOk /\ op.password /\ op.net = "ok" /\ op.saveOk
              /\ credfile = SavedBy(issued)

C2_Witness ==
    /\ op.name = "restore_login"
    /\ op.preFile.present
    /\ result = FromSdkError
    /\ credfile = op.preFile

\* C3: with a credentials file present, a restore that fails in the restore
\* call or in the sync round after it returns Error::LoginFailed.
C3_RestoreFailureIsLoginFailed ==
    (op.name = "restore_login" /\ "restore_login" \in Fns(calls) /\ result # "Ok") =>
        result = "LoginFailed"

\* C4: restore_login returns NotLoggedIn, having called nothing, when the
\* credentials path is not an existing file; when the file is there and the
\* restore call or the sync round is refused, it returns another error.
C4_NoSessionVersusRejected ==
    op.name = "restore_login" =>
        /\ (~op.preFile.present => result = "NotLoggedIn" /\ calls = <<>>)
        /\ (("restore_login" \in Fns(calls) /\ result # "Ok") =>
                result # "NotLoggedIn" /\ op.preFile.present)

C4_Witness ==
    /\ op.name = "restore_login"
    /\ "sync_once" \in Fns(calls)
    /\ op.net = "ok"
    /\ TokenOf(op.preFile) \notin server
    /\ result = FromSdkError

\* C5: a login that returned success has written, at the credentials path,
\* a file holding its session; and a restore_login that reads a loadable file
\* whose token the homeserver accepts (store opening, restore call and
\* network in order) returns the client of that session without calling the
\* password login.
C5_LoginThenRestore ==
    /\ (op.name = "login" /\ result = "Ok") =>
            /\ Loadable(credfile)
            /\ TokenOf(credfile) = client.token
            /\ client.state = "Ok"
    /\ (/\ op.name = "restore_login"
        /\ Loadable(op.preFile)
        /\ op.storeOk /\ op.restoreOk
        /\ (gs_sync = "Off" \/ ServerAccepts(server, TokenOf(op.preFile), op.net))) =>
            /\ result = "Ok"
            /\ client = OkClient(TokenOf(op.preFile))
            /\ "login_username" \notin Fns(calls)

\* a restore, in Full mode, of a session that a login of this run created
C5_Witness ==
    /\ op.name = "restore_login"
    /\ result = "Ok"
    /\ gs_sync = "Full"
    /\ client.token > 1
    /\ op.preFile = SavedBy(client.token)

\* C6 as stated: whenever login returns an error, the credentials path is as
\* it was before the call; a rejected password yields LoginFailed.
C6_NoFileWhenLoginFails ==
    op.name = "login" =>
        /\ (result \notin {"Ok", "Panic"} => credfile = op.preFile)
        /\ (op.storeOk /\ ~op.password => result = "LoginFailed")

\* C6, amended: login writes the credentials file exactly when the homeserver
\* accepted the password and the save succeeded.  A rejected password yields
\* LoginFailed and leaves the path untouched, as does a failed save; when only
\* the sync round after the save fails (Full mode), login returns that error
\* with the new credentials file already written.
C6_FileWrittenIffSaved ==
    op.name = "login" =>
        /\ (op.storeOk /\ ~(op.password /\ op.net = "ok") => result = "LoginFailed")
        /\ (result \in {"LoginFailed", "Panic", FromIoError} => credfile = op.preFile)
        /\ (result \in {"Ok", FromSdkError} =>
                /\ credfile = SavedBy(issued)
                /\ "Credentials::save" \in Fns(calls))
        /\ (result = FromSdkError =>
                gs_sync = "Full" /\ Last(calls).fn = "sync_once")

C6_Witness ==
    /\ op.name = "login"
    /\ result = FromSdkError
    /\ ~op.preFile.present
    /\ credfile = SavedBy(issued)

\* C7 as stated: once logout has returned success, the credentials file and
\* the store directory are both absent.
C7_LogoutRemovesBoth ==
    (op.name = "logout" /\ result = "Ok") => (~credfile.present /\ ~sled)

\* C7, amended: logout always returns success; after it each of the
\* credentials file and the store directory is absent unless its own removal
\* failed, which is logged (so one may be removed and the other left); and
\* when the credentials file is absent after logout, a restore_login that
\* follows returns NotLoggedIn.
C7_LogoutRemovesUnlessRemovalFails ==
    /\ [](op.name = "logout" =>
            /\ result = "Ok"
            /\ (credfile.present =>
                    "Error: credentials file not removed" \in Range(log))
            /\ (~credfile.present /\ op.preFile.present =>
                    "Credentials file successfully remove" \in Range(log))
            /\ (sled => "Error: Sled directory not removed" \in Range(log))
            /\ ("Sled directory successfully remove" \in Range(log) => ~sled)
            /\ (op.rmFileOk /\ op.rmDirOk => ~credfile.present /\ ~sled))
    /\ [][(op.name = "logout" /\ ~credfile.present /\ op'.name = "restore_login")
            => result' = "NotLoggedIn"]_vars

C7_Witness ==
    /\ op.name = "logout"
    /\ result = "Ok"
    /\ op.preFile.present
    /\ ~credfile.present
    /\ ~sled
    /\ "Sled directory successfully remove" \in Range(log)

\* C8: sync_once makes no sync call and returns Ok in mode Off, and makes
\* exactly one sync call, carrying the given timeout, in mode Full; no
\* invocation of any function makes a second sync call.
C8_SyncOnceCalls ==
    /\ op.name = "sync_once" =>
            /\ (op.stype = "Off" => calls = <<>> /\ result = "Ok")
            /\ (op.stype = "Full" => calls = <<Call("sync_once", op.timeout)>>)
    /\ Count(calls, "sync_once") <= 1
    /\ (op.name \in {"restore_login", "login"} =>
            /\ (gs_sync = "Off" => Count(calls, "sync_once") = 0)
            /\ (result = "Ok" /\ gs_sync = "Full" =>
                    Last(calls) = Call("sync_once", gs_timeout)))

C8_Witness ==
    /\ op.name = "sync_once"
    /\ op.stype = "Full"
    /\ op.timeout = 10
    /\ op.net = "timeout"
    /\ calls = <<Call("sync_once", 10)>>

\* C9: in Full mode a sync round that times out or fails in transport makes
\* sync_once return an error; restore_login and login make their one sync
\* call as the last step, and its failure makes them return an error, the
\* caller holding an Err instead of a client.
C9_SyncFailurePropagates ==
    /\ (op.name = "sync_once" /\ op.stype = "Full" /\ op.net # "ok") =>
            result \notin {"Ok", "Panic"}
    /\ (op.name = "restore_login" /\ "sync_once" \in Fns(calls) /\ op.net # "ok") =>
            result \notin {"Ok", "Panic"} /\ client = ErrClient(result)
    /\ (op.name = "login" /\ "sync_once" \in Fns(calls) /\ op.net2 # "ok") =>
            result \notin {"Ok", "Panic"} /\ client = ErrClient(result)
    /\ (op.name \in {"restore_login", "login"} /\ "sync_once" \in Fns(calls)) =>
            Count(calls, "sync_once") = 1 /\ Last(calls).fn = "sync_once"

C9_Witness ==
    /\ op.name = "login"
    /\ gs_sync = "Full"
    /\ op.net2 = "timeout"
    /\ "sync_once" \in Fns(calls)
    /\ result = FromSdkError
    /\ client.state = "Err"

\* C10: message and file called with a client that is an Err return
\* InvalidClientConnection having done nothing else: no room parsing, no
\* joined-room lookup, no file read, no network call, nothing sent, whatever
\* the other arguments.
C10_ErrClientFailsFast ==
    (op.name \in {"message", "file"} /\ client.state = "Err") =>
        /\ result = "InvalidClientConnection"
        /\ calls = <<>>
        /\ Fns(calls) \cap NetworkFns = {}
        /\ sent = NoContent

\* file on an Err client, with a path that cannot be read and a room that
\* does not parse
C10_Witness ==
    /\ op.name = "file"
    /\ client.state = "Err"
    /\ op.path.kind = "missing"
    /\ ~RoomIdParse(op.room)
    /\ result = "InvalidClientConnection"

\* C11 as stated: on a valid client, message and file given a well-formed
\* room identifier that is not joined return InvalidRoom.
C11_NotJoinedIsInvalidRoom ==
    (/\ op.name \in {"message", "file"}
     /\ client.state # "Err"
     /\ RoomIdParse(op.room)
     /\ op.room \notin JoinedRooms) =>
        result = "InvalidRoom"

\* C11, amended: on a valid client, message, and file when the source file
\* can be read, given a well-formed room identifier that is not joined return
\* InvalidRoom; file returns the I/O error instead when the source file
\* cannot be read.  In both cases nothing is sent, no request reaches the
\* homeserver, and the caller's client is still Ok.
C11_NotJoinedSendsNothing ==
    (/\ op.name \in {"message", "file"}
     /\ client.state # "Err"
     /\ RoomIdParse(op.room)
     /\ op.room \notin JoinedRooms) =>
        /\ result = IF op.name = "file" /\ op.path.kind # "file"
                    THEN FromIoError ELSE "InvalidRoom"
        /\ Fns(calls) \cap NetworkFns = {}
        /\ sent = NoContent
        /\ client.state = "Ok"

C11_Witness ==
    /\ op.name = "file"
    /\ op.path.kind = "file"
    /\ op.room = RoomNotJoined
    /\ client.state = "Ok"
    /\ result = "InvalidRoom"
    /\ Last(calls).fn = "get_joined_room"

\* C12: on a valid client, message and file (the source file read) given a
\* room identifier that does not parse return InvalidRoom as a value: the
\* call does not abort the process.
C12_MalformedRoomIsInvalidRoom ==
    (/\ \/ op.name = "message"
        \/ op.name = "file" /\ op.path.kind = "file"
     /\ client.state # "Err"
     /\ ~RoomIdParse(op.room)) =>
        result = "InvalidRoom"

C16_CleanupStepsIndependent ==
    op.name = "logout" =>
        /\ (op.preFile.present /\ ~op.rmFileOk =>
                /\ Last(calls).fn = "remove_dir_all"
                /\ (op.rmDirOk => ~sled))
        /\ (~op.rmDirOk =>
                /\ "remove_file" \in Fns(calls) <=> op.preFile.present
                /\ (op.rmFileOk => ~credfile.present))
        /\ ("Error: credentials file not removed" \in Range(log)
                <=> op.preFile.present /\ ~op.rmFileOk)
        /\ (~op.rmDirOk => "Error: Sled directory not removed" \in Range(log))
        /\ ("Error: Sled directory not removed" \in Range(log)
                <=> "Sled directory successfully remove" \notin Range(log))

C16_Witness ==
    /\ op.name = "logout"
    /\ op.preFile.present /\ ~op.rmFileOk /\ op.rmDirOk
    /\ credfile.present
    /\ ~sled
    /\ "Error: credentials file not removed" \in Range(log)
    /\ "Sled directory successfully remove" \in Range(log)

\* C17: the MIME type file sends is the caller's when one is given, else the
\* one guessed from the extension of the path (.png gives image/png), else
\* application/octet-stream.
C17_MimeOrder ==
    (op.name = "file" /\ result = "Ok") =>
        sent.mime = IF op.mime # None THEN op.mime[1]
                    ELSE IF op.path.ext = "png" THEN "image/png"
                    ELSE IF op.path.ext = "txt" THEN "text/plain"
                    ELSE "application/octet-stream"

\* a caller's type kept although the extension guesses another
C17_Witness ==
    /\ op.name = "file"
    /\ result = "Ok"
    /\ op.mime = Some("text/plain")
    /\ op.path.ext = "png"
    /\ sent.mime = "text/plain"

\* C18: file, on a valid client, returns InvalidFile exactly when no label is
\* given and the path has no final component, and otherwise sends under the
\* given label, else under the base name of the path.
C18_InvalidFileIffNoName ==
    (op.name = "file" /\ client.state # "Err") =>
        /\ (op.label = None /\ op.path.name = None) <=> result = "InvalidFile"
        /\ (result = "Ok" =>
                sent.label = IF op.label # None THEN op.label[1] ELSE op.path.name[1])

\* C19: message builds content of one type: Notice when notice is set (also
\* when emote is), else Emote when emote is set, else Text; without code the
\* markdown flag is the rendering, and it never changes the type.
C19_TypePrecedence ==
    (op.name = "message" /\ result = "Ok") =>
        /\ sent.kind = "message"
        /\ sent.msgtype = IF op.notice THEN "Notice"
                          ELSE IF op.emote THEN "Emote" ELSE "Text"
        /\ (~op.code => sent.markdown = op.markdown /\ sent.body = op.msg)

C19_Witness ==
    /\ op.name = "message"
    /\ result = "Ok"
    /\ op.notice /\ op.emote /\ op.markdown
    /\ sent.msgtype = "Notice"
    /\ sent.markdown

\* C14: the handshake reaches Requested only from Idle by an accepted
\* request, a rejection by the operator at EmojiPresented leads to Aborted
\* with the rejection signal, Done is entered only from Confirmed, an ended
\* handshake stays as it ended, and verify returns Ok only when the handshake
\* ended in Done (so never after a rejection).
C14_NoSuccessAfterRejection ==
    /\ [][/\ (handshake'.state = "Requested" /\ handshake.state # "Requested") =>
                (handshake.state = "Idle" /\ handshake'.event = "request_accepted")
          /\ (/\ handshake.state = "EmojiPresented"
              /\ handshake' # handshake
              /\ handshake'.event = "operator_reject") =>
                (handshake'.state = "Aborted" /\ handshake'.signal = "rejected")
          /\ (handshake'.state = "Done" /\ handshake.state # "Done") =>
                (handshake.state = "Confirmed")
          /\ (handshake.state \in HandshakeTerminal => handshake' = handshake)]_vars
    /\ []((op.name = "verify" /\ result = "Ok") =>
            (handshake.state = "Done" /\ client.state = "Ok"))
    /\ []((op.name = "verify" /\ handshake.signal = "rejected") =>
            (handshake.state = "Aborted" /\ result = "VerificationRejected"))

C14_Witness ==
    /\ op.name = "verify"
    /\ handshake.state = "Aborted"
    /\ handshake.signal = "rejected"
    /\ handshake.event = "operator_reject"
    /\ result = "VerificationRejected"

\* C15: verify returns in the end; no wait of the handshake lasts longer than
\* the configured timeout; a wait that lasts that long without an event ends
\* the handshake in Aborted with the timeout signal, verify then returns the
\* timeout error (not the rejection), and the client, the credentials file and
\* the store directory are as they were.
C15_VerifyTerminates ==
    /\ <>(op.name = "verify")
    /\ [](handshake.waited <= gs_timeout)
    /\ []((op.name = "verify" /\ handshake.signal = "timeout") =>
            /\ handshake.state = "Aborted"
            /\ result = "VerificationTimeout"
            /\ client.state = "Ok"
            /\ sled
            /\ credfile.present)

C15_Witness ==
    /\ op.name = "verify"
    /\ handshake.state = "Aborted"
    /\ handshake.signal = "timeout"
    /\ result = "VerificationTimeout"
    /\ client.state = "Ok"

====
